---- MODULE Spec2Model ----
(***************************************************************************)
(* A model of yarnitor's background worker (yarnitor/background/worker.py). *)
(*                                                                         *)
(*   SpecRM      YARNHandler.get_url: the resource-manager client, one     *)
(*               loop iteration per step, several calls in a row.          *)
(*   Spec        YARNPoller.loop / run_update: the poll cycles, one        *)
(*               statement of run_update per step; the two resource-      *)
(*               manager calls and the fan-out are summarised by their     *)
(*               outcome (a value or an exception).                        *)
(*   FairSpec    Spec with the fairness of the poller's own thread.        *)
(*   SpecFanout  YARNPoller._generate_listing: one fan-out over the        *)
(*               application list, the handlers and the tracking           *)
(*               endpoints' answers in full.                               *)
(*   SpecWeb     Spec together with the web application's reads of the     *)
(*               store (yarnitor/model.py, yarnitor/api.py).               *)
(*   SpecCycle   one call of run_update with its fan-out in full: the       *)
(*               steps of Spec and of SpecFanout together.                 *)
(*   SpecHandler one call of generate_standardized_info of the handler of  *)
(*               one application, over job lists of several jobs.          *)
(*   SpecPool    the global threadpool under one fan-out after another,    *)
(*               with the run_tasks a timed-out fan-out leaves running.    *)
(***************************************************************************)
EXTENDS Integers, Sequences, FiniteSets, TLC

\* ------------------------------------------------------------------ bounds
\* Longest configured candidate list (YARN_ENDPOINT, comma separated).
MaxHosts == 3

\* Longest application list the resource manager returns.
MaxApps == 2

\* Poll cycles run by the loop before the model stops it.
MaxCycles == 3

\* Longest job list a tracking endpoint returns to one handler call.
MaxJobs == 2

\* ------------------------------------------------------- program constants
MAX_HA_REDIRECTS == 5
THREADPOOL_SIZE == 16
NON_RESPONSIVE_STATE == "NON_RESPONSIVE"

VARIABLES
    \* YARNHandler
    all_hosts,          \* self.all_hosts: the configured candidate list
    base_url_host,      \* self.base_url['host']: the current primary
    \* one get_url call
    rm_pc,              \* "idle" | "loop" | "returned" | "raised"
    rm_path,            \* the path argument of the call in progress
    available_hosts,    \* the local set available_hosts
    req_log,            \* the requests issued by this call, with their answers
    rm_result,          \* the value the call returned
    rm_error,           \* the exception the call raised
    removed_before,     \* history: the hosts the last finished call removed
    \* YARNPoller
    poller_pc,          \* the statement of loop / run_update that runs next:
                        \* "off" | "run_update" | "_generate_listing" | "cluster_metrics"
                        \* | "utcnow" | "redis_set" | "except" | "sleep" | "terminated"
    state,              \* self.state: the in-memory snapshot dict
    store,              \* the redis value under YARN_STATUS_KEY
    cycle,              \* number of the current poll cycle (1, 2, ...)
    clock,              \* what datetime.utcnow() reads, in half seconds
    poller_error,       \* the exception that escaped run_update, if any
    store_at_start,     \* history: the store when this cycle entered run_update
    outcomes,           \* history: how each finished cycle ended
    \* one call of YARNPoller._generate_listing
    fan_pc,             \* "off" | "cluster_applications" | "map" | "returned" | "raised"
                        \* | "handler" | "handler_returned" | "handler_raised"
    cluster_apps,       \* the local dict cluster_apps (null: not assigned yet)
    apps,               \* the local list apps
    task,               \* per submitted run_task: "queued" | "running" | "done" | "cancelled"
    fetched,            \* per finished run_task: the tracking answers it received
    results,            \* per finished run_task: the std_info it returned
    listing,            \* the dict _generate_listing returned
    fan_error,          \* the exception _generate_listing raised
    \* the web application (yarnitor/model.py, yarnitor/api.py)
    cache,              \* the flask cache entry of YARNModel.state
    \* the global threadpool
    leftover            \* run_tasks of earlier fan-outs that still hold a thread

rm_vars == <<all_hosts, base_url_host, rm_pc, rm_path, available_hosts,
             req_log, rm_result, rm_error, removed_before>>

poller_vars == <<poller_pc, state, store, cycle, clock, poller_error,
                 store_at_start, outcomes>>

fan_vars == <<fan_pc, cluster_apps, apps, task, fetched, results, listing, fan_error>>

reader_vars == <<cache>>

pool_vars == <<leftover>>

vars == <<rm_vars, poller_vars, fan_vars, reader_vars, pool_vars>>

\* ------------------------------------------------------------ small helpers
Range(s) == {s[k] : k \in 1..Len(s)}

IsInjective(s) == \A a, b \in 1..Len(s) : s[a] = s[b] => a = b

NoValue == "<none>"

\* Decoded JSON: a list, a dict (a function on its keys) or null.
JList(items) == [kind |-> "list", items |-> items, map |-> <<>>]
JDict(map) == [kind |-> "dict", items |-> <<>>, map |-> map]
JNull == [kind |-> "null", items |-> <<>>, map |-> <<>>]

\* ===================================================== the resource manager
\* Scheme+host of the resource managers that exist on the network.
Hosts == {"http://rm1", "http://rm2", "http://rm3"}

\* YARN_ENDPOINT after host.split(','): one to MaxHosts distinct hosts.
HostLists ==
    {s \in UNION {[1..n -> Hosts] : n \in 1..MaxHosts} : IsInjective(s)}

RMPaths == {"cluster/apps", "cluster/metrics"}

\* A response body as sent: JSON text carrying a value, or text that is no JSON.
JsonText(v) == [wellformed |-> TRUE, value |-> v]
NotJson == [wellformed |-> FALSE, value |-> NoValue]

\* resp.json(): the decoded value; raises ValueError on text that is no JSON.
JsonRaises(text) == ~text.wellformed
JsonDecode(text) == text.value

\* The Refresh header "3; url=http://newhost:port/same/path?args", as the
\* list of its ';'-separated fields and the URL that follows 'url='.
NoRefresh == [present |-> FALSE, fields |-> 0, url |-> [host |-> NoValue, path |-> NoValue]]
RefreshTo(h, p) ==
    [present |-> TRUE, fields |-> 2, url |-> [host |-> h, path |-> "/ws/v1/" \o p]]
\* A Refresh header without the "; url=" part, e.g. "3".
BareRefresh == [present |-> TRUE, fields |-> 1, url |-> [host |-> NoValue, path |-> NoValue]]

\* `_, key = ha_redirect.split(';')` raises ValueError unless there are two fields.
RefreshRaises(header) == header.fields # 2
\* A new primary that keeps the path of the redirect URL.
RefreshHost_KeepsPath(header) == header.url.host \o header.url.path

\* urlparse + '{parsed.scheme}://{parsed.netloc}': the URL without its path.
RefreshHost(header) == header.url.host

ErrorStatuses == {404, 500}

\* What a resource manager may answer to one GET of path p.
RMResponses(p) ==
    {[status |-> s, refresh |-> NoRefresh, body |-> NotJson] : s \in ErrorStatuses}
    \cup {[status |-> 200, refresh |-> RefreshTo(h, p), body |-> JsonText("standby")] :
            h \in Hosts}
    \cup {[status |-> 200, refresh |-> BareRefresh, body |-> JsonText("standby")]}
    \cup {[status |-> 200, refresh |-> NoRefresh, body |-> JsonText(p)]}
    \cup {[status |-> 200, refresh |-> NoRefresh, body |-> NotJson]}

\* resp.raise_for_status(): raises HTTPError for 4xx and 5xx.
RaiseForStatus(status) == status \in 400..599

\* `for new_host in self.all_hosts: break`: the first element of the iteration.
PickNewHost(hosts, available) == hosts[1]

\* A loop that allows one iteration too many.
LoopExhausted_OffByOne(n) == n > MAX_HA_REDIRECTS

\* `for i in range(MAX_HA_REDIRECTS)` ran out without a break: the else clause.
LoopExhausted(n) == n >= MAX_HA_REDIRECTS

\* YARNHandler.__init__ and no call in progress.
InitRM ==
    /\ all_hosts \in HostLists
    /\ base_url_host = all_hosts[1]
    /\ rm_pc = "idle"
    /\ rm_path = NoValue
    /\ available_hosts = {}
    /\ req_log = <<>>
    /\ rm_result = NoValue
    /\ rm_error = NoValue
    /\ removed_before = {}

\* A get_url that starts every call from the first configured host.
GetUrlEnter_ResetsPrimary ==
    /\ rm_pc = "idle"
    /\ \E p \in RMPaths : rm_path' = p
    /\ available_hosts' = Range(all_hosts)
    /\ base_url_host' = all_hosts[1]
    /\ req_log' = <<>>
    /\ rm_result' = NoValue
    /\ rm_error' = NoValue
    /\ rm_pc' = "loop"
    /\ UNCHANGED <<all_hosts, removed_before, poller_vars, fan_vars, reader_vars, pool_vars>>

\* A get_url whose working set lives in the handler and is refilled only
\* once it is empty.
GetUrlEnter_KeepsWorkingSet ==
    /\ rm_pc = "idle"
    /\ \E p \in RMPaths : rm_path' = p
    /\ available_hosts' =
          IF available_hosts = {} THEN Range(all_hosts) ELSE available_hosts
    /\ req_log' = <<>>
    /\ rm_result' = NoValue
    /\ rm_error' = NoValue
    /\ rm_pc' = "loop"
    /\ UNCHANGED <<all_hosts, base_url_host, removed_before, poller_vars, fan_vars,
                   reader_vars, pool_vars>>

\* get_url is entered: available_hosts = set(self.all_hosts).
GetUrlEnter ==
    /\ rm_pc = "idle"
    /\ \E p \in RMPaths : rm_path' = p
    /\ available_hosts' = Range(all_hosts)
    /\ req_log' = <<>>
    /\ rm_result' = NoValue
    /\ rm_error' = NoValue
    /\ rm_pc' = "loop"
    /\ UNCHANGED <<all_hosts, base_url_host, removed_before, poller_vars, fan_vars,
                   reader_vars, pool_vars>>

GetUrlRaise(e) ==
    /\ rm_pc' = "raised"
    /\ rm_error' = e
    /\ rm_result' = NoValue

GetUrlContinue(n) ==
    IF LoopExhausted(n)
    THEN GetUrlRaise("RuntimeError: Too many YARN redirects")
    ELSE /\ rm_pc' = "loop"
         /\ UNCHANGED <<rm_result, rm_error>>

\* One iteration of the loop: the GET against the current primary and what
\* the code does with the answer.
GetUrlIterate ==
    /\ rm_pc = "loop"
    /\ \E resp \in RMResponses(rm_path) :
        /\ req_log' = Append(req_log, [host |-> base_url_host, resp |-> resp])
        /\ IF resp.status >= 400
           THEN IF base_url_host \notin available_hosts
                THEN \* set.remove of an absent element
                     /\ GetUrlRaise("KeyError")
                     /\ UNCHANGED <<available_hosts, base_url_host>>
                ELSE /\ available_hosts' = available_hosts \ {base_url_host}
                     /\ IF available_hosts' = {} /\ RaiseForStatus(resp.status)
                        THEN /\ GetUrlRaise("HTTPError")
                             /\ UNCHANGED base_url_host
                        ELSE /\ base_url_host' = PickNewHost(all_hosts, available_hosts')
                             /\ GetUrlContinue(Len(req_log'))
           ELSE IF ~resp.refresh.present
                THEN \* break, then return resp.json()
                     /\ UNCHANGED <<available_hosts, base_url_host>>
                     /\ IF JsonRaises(resp.body)
                        THEN GetUrlRaise("ValueError")
                        ELSE /\ rm_pc' = "returned"
                             /\ rm_result' = JsonDecode(resp.body)
                             /\ UNCHANGED rm_error
                ELSE IF RefreshRaises(resp.refresh)
                     THEN /\ GetUrlRaise("ValueError")
                          /\ UNCHANGED <<available_hosts, base_url_host>>
                     ELSE /\ base_url_host' = RefreshHost(resp.refresh)
                          /\ UNCHANGED available_hosts
                          /\ GetUrlContinue(Len(req_log'))
    /\ UNCHANGED <<all_hosts, rm_path, removed_before, poller_vars, fan_vars,
                   reader_vars, pool_vars>>

\* The caller has the result or the exception; the handler is idle again and
\* keeps its primary.
GetUrlLeave ==
    /\ rm_pc \in {"returned", "raised"}
    /\ rm_pc' = "idle"
    /\ removed_before' = Range(all_hosts) \ available_hosts
    /\ UNCHANGED <<all_hosts, base_url_host, rm_path, available_hosts,
                   req_log, rm_result, rm_error, poller_vars, fan_vars, reader_vars, pool_vars>>

NextRM == GetUrlEnter \/ GetUrlIterate \/ GetUrlLeave

\* No exception has escaped run_update; a cycle that published.
NoError == [at |-> NoValue, type |-> NoValue]
Published == [at |-> "redis_set", type |-> "published"]

\* The poller at rest: what SpecRM keeps fixed.
PollerAtRest ==
    /\ poller_pc = "off"
    /\ state = <<>>
    /\ store = [present |-> FALSE, text |-> <<>>]
    /\ cycle = 0
    /\ clock = 0
    /\ poller_error = NoError
    /\ store_at_start = store
    /\ outcomes = <<>>

\* No fan-out in progress: what SpecRM and Spec keep fixed.
\* The web application has cached nothing yet.
NoCache == [present |-> FALSE, value |-> <<>>]
ReaderAtRest == cache = NoCache

\* No run_task of an earlier fan-out occupies a thread of the pool.
PoolIdle == leftover = 0

FanoutAtRest ==
    /\ fan_pc = "off"
    /\ cluster_apps = JNull
    /\ apps = <<>>
    /\ task = <<>>
    /\ fetched = <<>>
    /\ results = <<>>
    /\ listing = <<>>
    /\ fan_error = NoValue

InitSpecRM == InitRM /\ PollerAtRest /\ FanoutAtRest /\ ReaderAtRest /\ PoolIdle

SpecRM == InitSpecRM /\ [][NextRM]_vars

\* ----------------------------------------------- properties of get_url
TooManyRedirects == "RuntimeError: Too many YARN redirects"

\* A response that get_url returns the body of.
IsSuccess(resp) ==
    resp.status < 400 /\ ~resp.refresh.present /\ resp.body.wellformed

\* A response carrying a well-formed Refresh redirect.
IsRedirect(resp) ==
    resp.status < 400 /\ resp.refresh.present /\ resp.refresh.fields = 2

RequestsOfCall == 1..Len(req_log)

\* C1 (as claimed): with hosts [A,B] and primary A, once A has answered the
\* call's first request with a status >= 400 the next request goes to B, and
\* if B answers it successfully without a Refresh header the call returns B's
\* decoded body and raises nothing.
C1_FailoverReachesSecondHost ==
    ( /\ Len(all_hosts) = 2
      /\ Len(req_log) >= 2
      /\ req_log[1].host = all_hosts[1]
      /\ req_log[1].resp.status >= 400 )
    => /\ req_log[2].host = all_hosts[2]
       /\ IsSuccess(req_log[2].resp)
            => /\ rm_error = NoValue
               /\ rm_result = JsonDecode(req_log[2].resp.body)

\* C2 (as claimed): a call that starts on a configured host and in which
\* every request is answered with a status >= 400 fails with the HTTP error
\* of raise_for_status ("resource manager unavailable"), never with another
\* kind of error.
C2_ExhaustionIsUnavailable ==
    ( /\ rm_pc = "raised"
      /\ req_log[1].host \in Range(all_hosts)
      /\ \A k \in RequestsOfCall : req_log[k].resp.status >= 400 )
    => rm_error = "HTTPError"

\* C3: a get_url call never issues more than MAX_HA_REDIRECTS (5) requests;
\* a call whose 5 responses all carry a Refresh redirect has failed with
\* 'Too many YARN redirects' right after the 5th, and that error is raised
\* only after exactly 5 requests.
C3_HopBound ==
    /\ Len(req_log) <= MAX_HA_REDIRECTS
    /\ ( /\ Len(req_log) = MAX_HA_REDIRECTS
         /\ \A k \in RequestsOfCall : IsRedirect(req_log[k].resp) )
       => (rm_pc # "loop" /\ rm_error = TooManyRedirects /\ rm_result = NoValue)
    /\ rm_error = TooManyRedirects => Len(req_log) = MAX_HA_REDIRECTS

\* C3 witness: a call that failed on its 5th redirect, every redirect naming
\* a host other than the one that sent it.
C3_Witness ==
    /\ rm_pc = "raised"
    /\ rm_error = TooManyRedirects
    /\ Len(req_log) = MAX_HA_REDIRECTS
    /\ \A k \in RequestsOfCall :
          /\ IsRedirect(req_log[k].resp)
          /\ RefreshHost(req_log[k].resp.refresh) # req_log[k].host

\* The hosts that answered one of the first n requests of the call with a
\* status >= 400.
FailedHosts(n) == {req_log[k].host : k \in {j \in 1..n : req_log[j].resp.status >= 400}}

\* C17 (as claimed): within one call, the request that follows an answer
\* with status >= 400 goes to a host that is still in the working set, that
\* is to a configured host that has not answered >= 400 in this call.
C17_FailoverPicksRemainingHost ==
    \A j \in RequestsOfCall :
        (j < Len(req_log) /\ req_log[j].resp.status >= 400)
            => req_log[j + 1].host \in Range(all_hosts) \ FailedHosts(j)

\* A response the resource manager's protocol provides for: an error status,
\* a Refresh redirect, or a JSON body.
IsProtocol(resp) == resp.status >= 400 \/ IsRedirect(resp) \/ IsSuccess(resp)

\* C18 (as claimed): a get_url call fails only with the 'unavailable' error
\* or the 'too many redirects' error, whichever primary answers >= 400: a
\* configured host, one adopted from a Refresh redirect, or one left over
\* from an earlier call.
C18_FailsOnlyUnavailableOrRedirects ==
    (rm_pc = "raised" /\ \A k \in RequestsOfCall : IsProtocol(req_log[k].resp))
        => rm_error \in {"HTTPError", TooManyRedirects}

\* C19: the primary in effect when a call ends is the host the next call
\* contacts first: between calls the primary does not change and a call's
\* first request goes to it; a call whose first response has a status below
\* 400 and no Refresh header leaves the primary unchanged.
C19_StickyPrimary ==
    /\ [][ (rm_pc \in {"returned", "raised", "idle"})
            => base_url_host' = base_url_host ]_vars
    /\ [][ (rm_pc = "loop" /\ req_log = <<>> /\ req_log' # <<>>)
            => req_log'[1].host = base_url_host ]_vars
    /\ [][ ( /\ rm_pc = "loop" /\ req_log = <<>> /\ req_log' # <<>>
             /\ req_log'[1].resp.status < 400
             /\ ~req_log'[1].resp.refresh.present )
            => base_url_host' = base_url_host ]_vars

\* C19 witness: a call began on a host that is not the first configured one,
\* so an earlier call had left it as the primary, and returned that host's
\* first answer with the primary still in place.
C19_Witness ==
    /\ rm_pc = "returned"
    /\ Len(req_log) = 1
    /\ req_log[1].host # all_hosts[1]
    /\ IsSuccess(req_log[1].resp)
    /\ base_url_host = req_log[1].host

\* C20: at the start of every get_url call the working set is the full
\* configured candidate list, the hosts the previous call removed included,
\* and during the call it lacks exactly the hosts that answered >= 400 in
\* this call.
C20_WorkingSetPerCall ==
    /\ (rm_pc = "loop" /\ req_log = <<>>) =>
          /\ available_hosts = Range(all_hosts)
          /\ removed_before \subseteq available_hosts
    /\ rm_pc \in {"loop", "returned", "raised"} =>
          available_hosts = Range(all_hosts) \ FailedHosts(Len(req_log))

\* C20 witness: a host the previous call had removed after a status >= 400
\* is asked again in this call and its answer is returned.
C20_Witness ==
    /\ rm_pc = "returned"
    /\ removed_before # {}
    /\ req_log[Len(req_log)].host \in removed_before
    /\ IsSuccess(req_log[Len(req_log)].resp)
    /\ available_hosts = Range(all_hosts)

\* C21: a response with status < 400 and a Refresh header '<seconds>;
\* url=<new-url>' is never the one whose body is returned: the primary
\* becomes the scheme+host of <new-url>, the call's next request goes to that
\* host, and a call returns the decoded body only of a response with status
\* < 400 and no Refresh header, its last one.
C21_RedirectIsFollowed ==
    /\ \A k \in RequestsOfCall :
          IsRedirect(req_log[k].resp) =>
              /\ k < Len(req_log) => req_log[k + 1].host = req_log[k].resp.refresh.url.host
              /\ k = Len(req_log) =>
                    /\ base_url_host = req_log[k].resp.refresh.url.host
                    /\ rm_pc # "returned"
    /\ rm_pc = "returned" =>
          LET last == req_log[Len(req_log)].resp IN
          /\ last.status < 400
          /\ ~last.refresh.present
          /\ rm_result = last.body.value
          /\ \A k \in RequestsOfCall :
                req_log[k].resp.refresh.present => rm_result # req_log[k].resp.body.value

\* C21 witness: a call was redirected from a configured host to a host that
\* is not configured and returned that host's body.
C21_Witness ==
    /\ rm_pc = "returned"
    /\ Len(req_log) = 2
    /\ IsRedirect(req_log[1].resp)
    /\ req_log[1].resp.refresh.url.host \notin Range(all_hosts)
    /\ req_log[2].host = req_log[1].resp.refresh.url.host
    /\ rm_result = rm_path

\* =========================================== the application handlers
\* `if v:` for a decoded value.
Truthy(v) ==
    CASE v.kind = "list" -> v.items # <<>>
      [] v.kind = "dict" -> DOMAIN v.map # {}
      [] OTHER -> FALSE

\* v.get(key, default): AttributeError unless v is a dict.
GetAttrRaises(v) == v.kind # "dict"
DictGetOr(v, key, default) ==
    IF key \in DOMAIN v.map THEN v.map[key] ELSE default

\* An application as the resource manager lists it (cluster/apps).
AppTypes == {"SPARK", "MAPREDUCE", "TEZ"}
\* cluster_applications("RUNNING") asks for the running applications only.
AppStates == {"RUNNING"}
AppId(i) == <<"application", i>>
RMApp(i, type, st) ==
    [id |-> AppId(i), name |-> <<"name", i>>, user |-> "hadoop",
     applicationType |-> type, queue |-> "default", startedTime |-> 1000 + i,
     allocatedMB |-> 2048, allocatedVCores |-> 2,
     trackingUrl |-> <<"http://proxy/", i, "/">>, state |-> st,
     memorySeconds |-> 600, vcoreSeconds |-> 60,
     progress |-> 50, finalStatus |-> "UNDEFINED"]

\* Progress(name).to_dict()
Progress(name, completed, failed, running, total) ==
    [name |-> name, completed |-> completed, failed |-> failed,
     running |-> running, total |-> total]

\* What a tracking endpoint may do with one GET: no answer within the 10 s
\* timeout, or a status and a body.
NoAnswer == [arrived |-> FALSE, status |-> 0, body |-> NotJson]
Answer(status, body) == [arrived |-> TRUE, status |-> status, body |-> body]

\* BaseHandler.get_url: requests.get(..., timeout=10) raises on a timeout and
\* resp.json() on a body that is no JSON; the status is not looked at.
TrackingGetRaises(resp) == ~resp.arrived \/ JsonRaises(resp.body)
TrackingGet(resp) == JsonDecode(resp.body)

VerbatimFields ==
    {"id", "name", "user", "applicationType", "queue", "startedTime",
     "allocatedMB", "allocatedVCores", "trackingUrl", "state",
     "memorySeconds", "vcoreSeconds"}

\* A base handler that reports the resource manager's percentage as one
\* progress record.
BaseInfo_OneProgress(app) ==
    [k \in VerbatimFields \cup {"progress"} |->
        IF k = "progress"
        THEN << [name |-> "Progress", completed |-> app["progress"], failed |-> 0,
                 running |-> 0, total |-> 100] >>
        ELSE app[k]]

\* BaseHandler.generate_standardized_info
BaseInfo(app) ==
    [k \in VerbatimFields \cup {"progress"} |->
        IF k = "progress" THEN <<>> ELSE app[k]]

RECURSIVE SumField(_, _)
SumField(jobs, field) ==
    IF jobs = <<>> THEN 0
    ELSE jobs[1][field] + SumField(Tail(jobs), field)

\* The loops of _aggregate_tasks, _aggregate_maps and _aggregate_reduces over
\* a decoded value: a dict iterates as its keys (strings, which cannot be
\* subscripted by a field name), null does not iterate, a job without one of
\* the fields raises KeyError.
AggregateRaises(v, fields) ==
    CASE v.kind = "list" ->
            \E k \in 1..Len(v.items) : ~(Range(fields) \subseteq DOMAIN v.items[k])
      [] v.kind = "dict" -> DOMAIN v.map # {}
      [] OTHER -> TRUE
\* fields: the counters added to completed, failed, running, total.
Aggregate(name, v, fields) ==
    Progress(name, SumField(v.items, fields[1]), SumField(v.items, fields[2]),
             SumField(v.items, fields[3]), SumField(v.items, fields[4]))

SparkFields ==
    <<"numCompletedTasks", "numFailedTasks", "numActiveTasks", "numTasks">>
MapFields ==
    <<"mapsCompleted", "failedMapAttempts", "mapsRunning", "mapsTotal">>
\* _aggregate_reduces pasted from _aggregate_maps with one key left as it was.
ReduceFields_FailedMaps ==
    <<"reducesCompleted", "failedMapAttempts", "reducesRunning", "reducesTotal">>

ReduceFields ==
    <<"reducesCompleted", "failedReduceAttempts", "reducesRunning", "reducesTotal">>

\* SparkHandler.generate_standardized_info up to (not including) the second
\* get_jobs: does it raise on the answer to get_jobs("running")?
SparkRunningRaises(r1) ==
    \/ TrackingGetRaises(r1)
    \/ Truthy(TrackingGet(r1)) /\ AggregateRaises(TrackingGet(r1), SparkFields)

\* SparkHandler.generate_standardized_info with answers r1 (running jobs)
\* and r2 (all jobs).
SparkRaises(r1, r2) ==
    \/ SparkRunningRaises(r1)
    \/ TrackingGetRaises(r2)
    \/ AggregateRaises(TrackingGet(r2), SparkFields)
\* A handler that aggregates "Total" over the running jobs again.
SparkInfo_TotalOfRunning(app, r1, r2) ==
    LET r == BaseInfo(app)
        jobs == TrackingGet(r1)
    IN  IF Truthy(jobs)
        THEN [r EXCEPT !["progress"] =
                            <<Aggregate("Running Tasks", jobs, SparkFields),
                              Aggregate("Total", jobs, SparkFields)>>,
                       !["state"] = "RUNNING"]
        ELSE [r EXCEPT !["state"] = "IDLE",
                       !["progress"] =
                            <<Progress("Running Tasks", 0, 0, 0, 0),
                              Aggregate("Total", jobs, SparkFields)>>]

\* A handler that forces RUNNING but leaves the state alone without running
\* jobs.
SparkInfo_IdleKeepsState(app, r1, r2) ==
    LET r == BaseInfo(app)
        jobs == TrackingGet(r1)
        all_jobs == TrackingGet(r2)
    IN  IF Truthy(jobs)
        THEN [r EXCEPT !["progress"] =
                            <<Aggregate("Running Tasks", jobs, SparkFields),
                              Aggregate("Total", all_jobs, SparkFields)>>,
                       !["state"] = "RUNNING"]
        ELSE [r EXCEPT !["progress"] =
                            <<Progress("Running Tasks", 0, 0, 0, 0),
                              Aggregate("Total", all_jobs, SparkFields)>>]

\* SparkHandler.generate_standardized_info once both get_jobs have answered.
SparkInfo(app, r1, r2) ==
    LET r == BaseInfo(app)
        jobs == TrackingGet(r1)
        all_jobs == TrackingGet(r2)
    IN  IF Truthy(jobs)
        THEN [r EXCEPT !["progress"] =
                            <<Aggregate("Running Tasks", jobs, SparkFields),
                              Aggregate("Total", all_jobs, SparkFields)>>,
                       !["state"] = "RUNNING"]
        ELSE [r EXCEPT !["state"] = "IDLE",
                       !["progress"] =
                            <<Progress("Running Tasks", 0, 0, 0, 0),
                              Aggregate("Total", all_jobs, SparkFields)>>]

\* self.get_jobs().get("jobs", {}).get("job", [])
MapredJobsRaises(r1) ==
    \/ TrackingGetRaises(r1)
    \/ GetAttrRaises(TrackingGet(r1))
    \/ GetAttrRaises(DictGetOr(TrackingGet(r1), "jobs", JDict(<<>>)))
MapredJobs(r1) ==
    DictGetOr(DictGetOr(TrackingGet(r1), "jobs", JDict(<<>>)), "job", JList(<<>>))

\* MapredHandler.generate_standardized_info with answer r1.
MapredRaises(r1) ==
    \/ MapredJobsRaises(r1)
    \/ /\ Truthy(MapredJobs(r1))
       /\ \/ AggregateRaises(MapredJobs(r1), MapFields)
          \/ AggregateRaises(MapredJobs(r1), ReduceFields)
MapredInfo(app, r1) ==
    LET r == BaseInfo(app)
        jobs == MapredJobs(r1)
    IN  IF Truthy(jobs)
        THEN [r EXCEPT !["progress"] =
                            <<Aggregate("Maps", jobs, MapFields),
                              Aggregate("Reduces", jobs, ReduceFields)>>]
        ELSE r

\* main: the handlers registered with the poller.
application_handlers ==
    [t \in {"SPARK", "MAPREDUCE", "MAPRED"} |->
        IF t = "SPARK" THEN "SparkHandler" ELSE "MapredHandler"]

\* A lookup whose default is the Spark handler.
HandlerClass_SparkByDefault(app) ==
    IF app.applicationType \in DOMAIN application_handlers
    THEN application_handlers[app.applicationType]
    ELSE "SparkHandler"

\* YARNPoller._make_application_handler: the class for the application's type.
HandlerClass(app) ==
    IF app.applicationType \in DOMAIN application_handlers
    THEN application_handlers[app.applicationType]
    ELSE "BaseHandler"

\* ah.generate_standardized_info(app) given the answers the handler received,
\* in the order of its GETs.
HandlerRaises(app, answers) ==
    CASE HandlerClass(app) = "SparkHandler" ->
            IF Len(answers) = 1 THEN SparkRunningRaises(answers[1])
            ELSE SparkRaises(answers[1], answers[2])
      [] HandlerClass(app) = "MapredHandler" -> MapredRaises(answers[1])
      [] OTHER -> FALSE
HandlerInfo(app, answers) ==
    CASE HandlerClass(app) = "SparkHandler" -> SparkInfo(app, answers[1], answers[2])
      [] HandlerClass(app) = "MapredHandler" -> MapredInfo(app, answers[1])
      [] OTHER -> BaseInfo(app)

\* A run_task whose except branch marks the record the Spark handler was
\* filling in when it raised, instead of building the BaseHandler's.
RunTask_KeepsPartial(app, answers) ==
    IF HandlerRaises(app, answers)
    THEN IF HandlerClass(app) = "SparkHandler" /\ Len(answers) = 2
         THEN LET jobs == TrackingGet(answers[1]) IN
              [BaseInfo(app) EXCEPT
                  !["state"] = NON_RESPONSIVE_STATE,
                  !["progress"] =
                      << IF Truthy(jobs)
                         THEN Aggregate("Running Tasks", jobs, SparkFields)
                         ELSE Progress("Running Tasks", 0, 0, 0, 0) >>]
         ELSE [BaseInfo(app) EXCEPT !["state"] = NON_RESPONSIVE_STATE]
    ELSE HandlerInfo(app, answers)

\* run_task: the handler's result, or on any exception the BaseHandler's
\* with the state NON_RESPONSIVE.
RunTask(app, answers) ==
    IF HandlerRaises(app, answers)
    THEN [BaseInfo(app) EXCEPT !["state"] = NON_RESPONSIVE_STATE]
    ELSE HandlerInfo(app, answers)

\* ============================================================== the poller
\* A Python dict with string keys, in insertion order: a sequence of items.
DictKeys(d) == {d[k].key : k \in 1..Len(d)}
DictGet(d, key) == (CHOOSE k \in 1..Len(d) : d[k].key = key)
DictValue(d, key) == d[DictGet(d, key)].value
\* d[key] = value: replaces the item of an existing key, appends a new one.
DictSet(d, key, value) ==
    IF key \in DictKeys(d)
    THEN [d EXCEPT ![DictGet(d, key)] = [key |-> key, value |-> value]]
    ELSE Append(d, [key |-> key, value |-> value])

\* json.dumps of a dict: the text of its members, one per item.
JsonDumps(d) == [k \in 1..Len(d) |-> <<d[k].key, ":", d[k].value>>]
\* json.loads of such a text.
JsonLoads(text) == [k \in 1..Len(text) |-> [key |-> text[k][1], value |-> text[k][3]]]

\* A value together with the poll cycle that produced it (0: the constructor).
Produced(c, v) == [by |-> c, val |-> v]

\* What _generate_listing may return, and cluster_metrics.
Listings == {"{}", "{app1: ..., app2: ...}"}
MetricsBodies == {"{clusterMetrics: ...}"}

\* datetime.datetime.utcnow() when the clock reads t half seconds past
\* 1970-01-01T00:00:00 UTC.
UtcNow(t) == [second |-> t \div 2, microsecond |-> (t % 2) * 500000]

\* datetime.isoformat(): 'YYYY-MM-DDTHH:MM:SS.ffffff', or without the
\* fraction if microsecond is 0; as the list of the text's parts.
IsoFormat(d) ==
    IF d.microsecond = 0
    THEN <<"1970-01-01T00:00:", d.second>>
    ELSE <<"1970-01-01T00:00:", d.second, ".", d.microsecond>>

\* A timestamp without the zone designator.
IsoFormatZ_NoZone(t) == IsoFormat(UtcNow(t))

\* datetime.datetime.utcnow().isoformat() + 'Z'
IsoFormatZ(t) == IsoFormat(UtcNow(t)) \o <<"Z">>

\* The exceptions YARNHandler.get_url raises (see SpecRM).
RMErrors == {"HTTPError", "KeyError", "ValueError", TooManyRedirects}
\* _generate_listing: those, and the TimeoutError of threadpool.map.
ListingErrors == RMErrors \cup {"TimeoutError"}
\* json.dumps and redis_client.set.
PublishErrors == {"TypeError", "redis.ConnectionError"}

\* A loop that deletes the snapshot key when a cycle has failed.
LoopExcept_DeletesKey ==
    /\ poller_pc = "except"
    /\ poller_pc' = "sleep"
    /\ outcomes' = Append(outcomes, poller_error)
    /\ store' = [present |-> FALSE, text |-> <<>>]
    /\ UNCHANGED <<fan_vars, reader_vars, pool_vars, rm_vars, state, cycle, clock, poller_error,
                   store_at_start>>

\* A handler that catches only the HTTP errors of requests.
Catches_OnlyHttp(e) == e = "HTTPError"

\* `except Exception`: every exception above derives from Exception.
Catches(e) == e \in ListingErrors \cup PublishErrors

\* YARNPoller.__init__, the store before the first cycle, loop entered.
InitPoller ==
    /\ poller_pc = "run_update"
    /\ state = << [key |-> "current", value |-> Produced(0, "{}")],
                  [key |-> "cluster-metrics", value |-> Produced(0, "{}")] >>
    /\ store = [present |-> FALSE, text |-> <<>>]
    /\ cycle = 1
    /\ clock = 0
    /\ poller_error = NoError
    /\ store_at_start = store
    /\ outcomes = <<>>

\* The handler a cycle works with: a two-host HA pair.
InitPollerRM ==
    /\ all_hosts = <<"http://rm1", "http://rm2">>
    /\ base_url_host = all_hosts[1]
    /\ rm_pc = "idle"
    /\ rm_path = NoValue
    /\ available_hosts = {}
    /\ req_log = <<>>
    /\ rm_result = NoValue
    /\ rm_error = NoValue
    /\ removed_before = {}

Init == InitPoller /\ InitPollerRM /\ FanoutAtRest /\ ReaderAtRest /\ PoolIdle

\* A whole get_url call seen from run_update: it may leave any host as the
\* primary; its value or exception is chosen by the calling step.
RMCallDone ==
    /\ \E h \in Hosts : base_url_host' = h
    /\ UNCHANGED <<all_hosts, rm_pc, rm_path, available_hosts, req_log,
                   rm_result, rm_error, removed_before>>

\* An exception leaves run_update at the statement `at`.
RunUpdateRaise(at, e) ==
    /\ poller_pc' = "except"
    /\ poller_error' = [at |-> at, type |-> e]

\* self.state["current"] = self._generate_listing()
RunUpdateListing ==
    /\ poller_pc = "run_update"
    /\ store_at_start' = store
    /\ RMCallDone
    /\ \/ \E m \in Listings :
            /\ state' = DictSet(state, "current", Produced(cycle, m))
            /\ poller_pc' = "cluster_metrics"
            /\ UNCHANGED poller_error
       \/ \E e \in ListingErrors :
            /\ RunUpdateRaise("_generate_listing", e)
            /\ UNCHANGED state
    /\ UNCHANGED <<fan_vars, reader_vars, pool_vars, store, cycle, clock, outcomes>>

\* A run_update that writes the store before it fetches the cluster metrics.
RunUpdateMetrics_PublishesFirst ==
    /\ poller_pc = "cluster_metrics"
    /\ RMCallDone
    /\ store' = [present |-> TRUE, text |-> JsonDumps(state)]
    /\ \/ \E m \in MetricsBodies :
            /\ state' = DictSet(state, "cluster-metrics", Produced(cycle, m))
            /\ poller_pc' = "utcnow"
            /\ UNCHANGED poller_error
       \/ \E e \in RMErrors :
            /\ RunUpdateRaise("cluster_metrics", e)
            /\ UNCHANGED state
    /\ UNCHANGED <<fan_vars, reader_vars, pool_vars, cycle, clock, store_at_start, outcomes>>

\* A run_update that logs a failed cluster_metrics call and goes on with the
\* metrics it already has.
RunUpdateMetrics_KeepsStale ==
    /\ poller_pc = "cluster_metrics"
    /\ RMCallDone
    /\ \/ \E m \in MetricsBodies :
            state' = DictSet(state, "cluster-metrics", Produced(cycle, m))
       \/ UNCHANGED state
    /\ poller_pc' = "utcnow"
    /\ UNCHANGED <<fan_vars, reader_vars, pool_vars, store, cycle, clock, poller_error, store_at_start, outcomes>>

\* self.state["cluster-metrics"] = self.yarn_handler.cluster_metrics()
RunUpdateMetrics ==
    /\ poller_pc = "cluster_metrics"
    /\ RMCallDone
    /\ \/ \E m \in MetricsBodies :
            /\ state' = DictSet(state, "cluster-metrics", Produced(cycle, m))
            /\ poller_pc' = "utcnow"
            /\ UNCHANGED poller_error
       \/ \E e \in RMErrors :
            /\ RunUpdateRaise("cluster_metrics", e)
            /\ UNCHANGED state
    /\ UNCHANGED <<fan_vars, reader_vars, pool_vars, store, cycle, clock, store_at_start, outcomes>>

\* self.state["refresh-datetime"] = datetime.datetime.utcnow().isoformat() + 'Z'
RunUpdateStamp ==
    /\ poller_pc = "utcnow"
    /\ state' = DictSet(state, "refresh-datetime", Produced(cycle, IsoFormatZ(clock)))
    /\ poller_pc' = "redis_set"
    /\ UNCHANGED <<fan_vars, reader_vars, pool_vars, rm_vars, store, cycle, clock, poller_error, store_at_start,
                   outcomes>>

\* self.redis_client.set(YARN_STATUS_KEY, json.dumps(self.state))
RunUpdatePublish ==
    /\ poller_pc = "redis_set"
    /\ \/ /\ store' = [present |-> TRUE, text |-> JsonDumps(state)]
          /\ poller_pc' = "sleep"
          /\ outcomes' = Append(outcomes, Published)
          /\ UNCHANGED poller_error
       \/ \E e \in PublishErrors :
            /\ RunUpdateRaise("redis_set", e)
            /\ UNCHANGED <<store, outcomes>>
    /\ UNCHANGED <<fan_vars, reader_vars, pool_vars, rm_vars, state, cycle, clock, store_at_start>>

\* An except clause that ends in `continue`: the next pass begins without the
\* sleep.
LoopExcept_SkipsSleep ==
    /\ poller_pc = "except"
    /\ outcomes' = Append(outcomes, poller_error)
    /\ IF Catches(poller_error.type) /\ cycle < MaxCycles
       THEN /\ poller_pc' = "run_update"
            /\ cycle' = cycle + 1
            /\ poller_error' = NoError
       ELSE /\ poller_pc' = IF Catches(poller_error.type) THEN "sleep" ELSE "terminated"
            /\ UNCHANGED <<cycle, poller_error>>
    /\ UNCHANGED <<fan_vars, reader_vars, pool_vars, rm_vars, state, store, clock,
                   store_at_start>>

\* except Exception: logger.exception(...); anything else leaves the loop.
LoopExcept ==
    /\ poller_pc = "except"
    /\ poller_pc' = IF Catches(poller_error.type) THEN "sleep" ELSE "terminated"
    /\ outcomes' = Append(outcomes, poller_error)
    /\ UNCHANGED <<fan_vars, reader_vars, pool_vars, rm_vars, state, store, cycle, clock, poller_error,
                   store_at_start>>

\* time.sleep(sleep_time), then the next pass of `while True`.
LoopSleep ==
    /\ poller_pc = "sleep"
    /\ cycle < MaxCycles
    /\ poller_pc' = "run_update"
    /\ cycle' = cycle + 1
    /\ clock' = clock + 1
    /\ poller_error' = NoError
    /\ UNCHANGED <<fan_vars, reader_vars, pool_vars, rm_vars, state, store, store_at_start, outcomes>>

Next ==
    \/ RunUpdateListing
    \/ RunUpdateMetrics
    \/ RunUpdateStamp
    \/ RunUpdatePublish
    \/ LoopExcept
    \/ LoopSleep

Spec == Init /\ [][Next]_vars

\* The poller is one thread that runs no other code: a statement that can
\* run does run. (The resource-manager GETs carry no timeout and may block
\* for ever, so no fairness is stated for the steps that make them.)
FairSpec ==
    Spec /\ WF_vars(RunUpdateStamp) /\ WF_vars(LoopExcept) /\ WF_vars(LoopSleep)

\* ============================================================ the fan-out
\* The answers of a Spark application master and of the proxy in front of it.
SparkJob ==
    [numCompletedTasks |-> 3, numFailedTasks |-> 0, numActiveTasks |-> 1, numTasks |-> 4]
\* A job object without numTasks.
SparkJobShort ==
    [numCompletedTasks |-> 3, numFailedTasks |-> 0, numActiveTasks |-> 1]
MapredJob ==
    [mapsCompleted |-> 5, failedMapAttempts |-> 0, mapsRunning |-> 2, mapsTotal |-> 7,
     reducesCompleted |-> 1, failedReduceAttempts |-> 0, reducesRunning |-> 1,
     reducesTotal |-> 2]
\* A job object without reducesTotal.
MapredJobShort ==
    [mapsCompleted |-> 5, failedMapAttempts |-> 0, mapsRunning |-> 2, mapsTotal |-> 7,
     reducesCompleted |-> 1, failedReduceAttempts |-> 0, reducesRunning |-> 1]

\* Answers of any tracking endpoint that is in trouble: no answer in time, a
\* 502 with an HTML page, a 404 with a JSON error object, a 200 with text
\* that is no JSON.
TroubleAnswers ==
    { NoAnswer,
      Answer(502, NotJson),
      Answer(404, JsonText(JDict([RemoteException |-> JNull]))),
      Answer(200, NotJson) }

SparkAnswers ==
    TroubleAnswers
    \cup {Answer(200, JsonText(JList(js))) :
            js \in {<<>>, <<SparkJob>>, <<SparkJobShort>>}}

MapredAnswers ==
    TroubleAnswers
    \cup {Answer(200, JsonText(JDict([jobs |-> JNull])))}
    \cup {Answer(200, JsonText(JDict([jobs |-> JDict([job |-> JList(js)])]))) :
            js \in {<<>>, <<MapredJob>>, <<MapredJobShort>>}}

\* The answers one run_task can receive, in the order of its GETs: a Spark
\* handler asks twice unless the first answer makes it raise, a MapReduce
\* handler asks once, the BaseHandler never.
AnswerSequences(app) ==
    CASE HandlerClass(app) = "SparkHandler" ->
            {<<r1>> : r1 \in {r \in SparkAnswers : SparkRunningRaises(r)}}
            \cup {<<r1, r2>> : r1 \in {r \in SparkAnswers : ~SparkRunningRaises(r)},
                               r2 \in SparkAnswers}
      [] HandlerClass(app) = "MapredHandler" -> {<<r1>> : r1 \in MapredAnswers}
      [] OTHER -> {<<>>}

\* The application lists of cluster/apps?state=RUNNING: ids are unique.
AppLists ==
    UNION {{[i \in 1..n |-> RMApp(i, ts[i][1], ts[i][2])] :
                ts \in [1..n -> AppTypes \X AppStates]} : n \in 0..MaxApps}

\* The decoded answers of cluster/apps: no 'apps' key, a null, or a list.
ClusterAppsAnswers ==
    {JDict(<<>>), JDict([apps |-> JNull])}
    \cup {JDict([apps |-> JDict([app |-> JList(l)])]) : l \in AppLists}

\* sum(1 if info['state'] == NON_RESPONSIVE_STATE else 0 for info in results)
NumNonResponsive(rs) ==
    Cardinality({k \in 1..Len(rs) : rs[k]["state"] = NON_RESPONSIVE_STATE})

\* A threshold that takes one non-responsive application for all of them.
AllNonResponsive_Any(rs) == NumNonResponsive(rs) >= 1

\* A comparison that never finds every application non-responsive.
AllNonResponsive_Never(rs) == NumNonResponsive(rs) > Len(rs)

\* if num_unknown_state == len(results)
AllNonResponsive(rs) == NumNonResponsive(rs) = Len(rs)

\* for result in results: result['state'] = 'UNKNOWN'
Downgrade(rs) ==
    IF AllNonResponsive(rs)
    THEN [k \in 1..Len(rs) |-> [rs[k] EXCEPT !["state"] = "UNKNOWN"]]
    ELSE rs

\* A dict comprehension keyed by the application's name.
KeyOf_Name(info) == info["name"]

\* The key of `{info["id"]: info for info in results}`.
KeyOf(info) == info["id"]

RECURSIVE KeyResults(_, _)
KeyResults(d, rs) ==
    IF rs = <<>> THEN d
    ELSE KeyResults(DictSet(d, KeyOf(rs[1]), rs[1]), Tail(rs))

\* A call of _generate_listing begins.
InitFanout ==
    /\ fan_pc = "cluster_applications"
    /\ cluster_apps = JNull
    /\ apps = <<>>
    /\ task = <<>>
    /\ fetched = <<>>
    /\ results = <<>>
    /\ listing = <<>>
    /\ fan_error = NoValue

InitSpecFanout == InitFanout /\ InitPollerRM /\ PollerAtRest /\ ReaderAtRest /\ PoolIdle

\* An early return that tests only for a missing 'apps' key: a null 'apps'
\* reaches cluster_apps['apps']['app'] and raises TypeError.
GenerateListingSubmit_NoNullCheck ==
    /\ fan_pc = "cluster_applications"
    /\ RMCallDone
    /\ \/ \E e \in RMErrors :
            /\ fan_pc' = "raised"
            /\ fan_error' = e
            /\ UNCHANGED <<cluster_apps, apps, task, listing>>
       \/ \E answer \in ClusterAppsAnswers :
            /\ cluster_apps' = answer
            /\ IF "apps" \notin DOMAIN answer.map
               THEN /\ fan_pc' = "returned"
                    /\ listing' = <<>>
                    /\ UNCHANGED <<apps, task, fan_error>>
               ELSE IF answer.map["apps"] = JNull
               THEN /\ fan_pc' = "raised"
                    /\ fan_error' = "TypeError"
                    /\ UNCHANGED <<apps, task, listing>>
               ELSE /\ apps' = answer.map["apps"].map["app"].items
                    /\ task' = [k \in 1..Len(apps') |-> "queued"]
                    /\ fan_pc' = "map"
                    /\ UNCHANGED <<listing, fan_error>>
    /\ UNCHANGED <<fetched, results, poller_vars, reader_vars, pool_vars>>

\* cluster_applications("RUNNING"), the early return, and threadpool.map
\* submitting one run_task per application.
GenerateListingSubmit ==
    /\ fan_pc = "cluster_applications"
    /\ RMCallDone
    /\ \/ \E e \in RMErrors :
            /\ fan_pc' = "raised"
            /\ fan_error' = e
            /\ UNCHANGED <<cluster_apps, apps, task, listing>>
       \/ \E answer \in ClusterAppsAnswers :
            /\ cluster_apps' = answer
            /\ IF "apps" \notin DOMAIN answer.map
                  \/ answer.map["apps"] = JNull
               THEN /\ fan_pc' = "returned"
                    /\ listing' = <<>>
                    /\ UNCHANGED <<apps, task, fan_error>>
               ELSE /\ apps' = answer.map["apps"].map["app"].items
                    /\ task' = [k \in 1..Len(apps') |-> "queued"]
                    /\ fan_pc' = "map"
                    /\ UNCHANGED <<listing, fan_error>>
    /\ UNCHANGED <<fetched, results, poller_vars, reader_vars, pool_vars>>

Running == {k \in 1..Len(task) : task[k] = "running"}

\* A pool of THREADPOOL_SIZE threads for every fan-out: the threads that
\* run_tasks of earlier fan-outs still hold are not counted.
TaskStart_PoolPerCall(i) ==
    /\ task[i] = "queued"
    /\ \A k \in 1..(i - 1) : task[k] # "queued"
    /\ Cardinality(Running) < THREADPOOL_SIZE
    /\ task' = [task EXCEPT ![i] = "running"]
    /\ UNCHANGED <<fan_pc, cluster_apps, apps, fetched, results, listing, fan_error,
                   reader_vars, pool_vars,
                   rm_vars, poller_vars>>

\* A free worker thread of the one global pool takes the oldest queued
\* run_task.
TaskStart(i) ==
    /\ task[i] = "queued"
    /\ \A k \in 1..(i - 1) : task[k] # "queued"
    /\ Cardinality(Running) + leftover < THREADPOOL_SIZE
    /\ task' = [task EXCEPT ![i] = "running"]
    /\ UNCHANGED <<fan_pc, cluster_apps, apps, fetched, results, listing, fan_error,
                   reader_vars, pool_vars,
                   rm_vars, poller_vars>>

\* A run_task that decides the downgrade itself, from the results that are
\* there when it returns: UNKNOWN if it failed and no result so far is good.
TaskFinish_CountsAsItGoes(i) ==
    /\ task[i] = "running"
    /\ \E answers \in AnswerSequences(apps[i]) :
        /\ fetched' = (i :> answers) @@ fetched
        /\ results' =
              (i :> IF /\ HandlerRaises(apps[i], answers)
                       /\ \A k \in DOMAIN results :
                             results[k]["state"] \in {NON_RESPONSIVE_STATE, "UNKNOWN"}
                    THEN [BaseInfo(apps[i]) EXCEPT !["state"] = "UNKNOWN"]
                    ELSE RunTask(apps[i], answers)) @@ results
    /\ task' = [task EXCEPT ![i] = "done"]
    /\ UNCHANGED <<fan_pc, cluster_apps, apps, listing, fan_error, rm_vars, poller_vars,
                   reader_vars, pool_vars>>

\* run_task(app) runs to its return on a worker thread.
TaskFinish(i) ==
    /\ task[i] = "running"
    /\ \E answers \in AnswerSequences(apps[i]) :
        /\ fetched' = (i :> answers) @@ fetched
        /\ results' = (i :> RunTask(apps[i], answers)) @@ results
    /\ task' = [task EXCEPT ![i] = "done"]
    /\ UNCHANGED <<fan_pc, cluster_apps, apps, listing, fan_error, rm_vars, poller_vars,
                   reader_vars, pool_vars>>

\* list(async_result) has every result: count, downgrade, key by id, return.
GenerateListingCollect ==
    /\ fan_pc = "map"
    /\ \A k \in 1..Len(task) : task[k] = "done"
    /\ listing' = KeyResults(<<>>, Downgrade(results))
    /\ fan_pc' = "returned"
    /\ UNCHANGED <<cluster_apps, apps, task, fetched, results, fan_error, rm_vars,
                   poller_vars, reader_vars, pool_vars>>

\* A timeout that is logged inside _generate_listing, which then returns an
\* empty listing instead of raising.
GenerateListingTimeout_ReturnsEmpty ==
    /\ fan_pc = "map"
    /\ \E k \in 1..Len(task) : task[k] # "done"
    /\ fan_pc' = "returned"
    /\ fan_error' = "TimeoutError"
    /\ listing' = <<>>
    /\ task' = [k \in 1..Len(task) |->
                    IF task[k] = "queued" THEN "cancelled" ELSE task[k]]
    /\ UNCHANGED <<cluster_apps, apps, fetched, results, rm_vars, poller_vars,
                   reader_vars, pool_vars>>

\* THREADPOOL_TIMEOUT passes while list(async_result) waits for a result:
\* TimeoutError; the iterator cancels what is still queued, what runs goes on.
GenerateListingTimeout ==
    /\ fan_pc = "map"
    /\ \E k \in 1..Len(task) : task[k] # "done"
    /\ fan_pc' = "raised"
    /\ fan_error' = "TimeoutError"
    /\ task' = [k \in 1..Len(task) |->
                    IF task[k] = "queued" THEN "cancelled" ELSE task[k]]
    /\ UNCHANGED <<cluster_apps, apps, fetched, results, listing, rm_vars, poller_vars,
                   reader_vars, pool_vars>>

NextFanout ==
    \/ GenerateListingSubmit
    \/ \E i \in 1..Len(task) : TaskStart(i)
    \/ \E i \in 1..Len(task) : TaskFinish(i)
    \/ GenerateListingCollect
    \/ GenerateListingTimeout

SpecFanout == InitSpecFanout /\ [][NextFanout]_vars

\* ==================================================== the global threadpool
\* SpecPool: the one ThreadPoolExecutor of the process under fan-out after
\* fan-out. What a run_task fetches plays no part here, so the applications
\* are of a type that has no handler of its own; a fan-out that timed out
\* leaves its running run_tasks in the pool when the next one begins.

\* Application lists of one to MaxApps applications of an unregistered type.
PoolAppLists == {[i \in 1..n |-> RMApp(i, "TEZ", "RUNNING")] : n \in 1..MaxApps}

\* cluster_applications("RUNNING") answers with a list and threadpool.map
\* submits one run_task per application.
PoolSubmit ==
    /\ fan_pc = "cluster_applications"
    /\ \E l \in PoolAppLists :
        /\ cluster_apps' = JDict([apps |-> JDict([app |-> JList(l)])])
        /\ apps' = l
        /\ task' = [k \in 1..Len(l) |-> "queued"]
    /\ fan_pc' = "map"
    /\ UNCHANGED <<fetched, results, listing, fan_error, rm_vars, poller_vars,
                   reader_vars, pool_vars>>

\* The loop has dealt with what _generate_listing returned or raised, has
\* slept, and run_update calls _generate_listing again: the run_tasks the
\* earlier call left running still hold their threads.
PoolNextCall ==
    /\ fan_pc \in {"returned", "raised"}
    /\ leftover' = leftover + Cardinality(Running)
    /\ fan_pc' = "cluster_applications"
    /\ cluster_apps' = JNull
    /\ apps' = <<>>
    /\ task' = <<>>
    /\ fetched' = <<>>
    /\ results' = <<>>
    /\ listing' = <<>>
    /\ fan_error' = NoValue
    /\ UNCHANGED <<rm_vars, poller_vars, reader_vars>>

\* A run_task of an earlier fan-out returns; nothing reads its future.
LeftoverFinish ==
    /\ leftover > 0
    /\ leftover' = leftover - 1
    /\ UNCHANGED <<rm_vars, poller_vars, fan_vars, reader_vars>>

NextPool ==
    \/ PoolSubmit
    \/ \E i \in 1..Len(task) : TaskStart(i)
    \/ \E i \in 1..Len(task) : TaskFinish(i)
    \/ GenerateListingCollect
    \/ GenerateListingTimeout
    \/ PoolNextCall
    \/ LeftoverFinish

SpecPool == InitSpecFanout /\ [][NextPool]_vars

\* C24: at every moment at most THREADPOOL_SIZE run_tasks execute, the
\* run_tasks of the current fan-out and those left running by earlier
\* fan-outs that timed out counted together.
C24_BoundedConcurrency == Cardinality(Running) + leftover <= THREADPOOL_SIZE

\* C24 witness: every thread of the pool is busy, some with run_tasks of
\* earlier fan-outs and one with a run_task of the current fan-out, while
\* another run_task of the current fan-out waits in the queue.
C24_Witness ==
    /\ fan_pc = "map"
    /\ leftover > 0
    /\ Cardinality(Running) > 0
    /\ Cardinality(Running) + leftover = THREADPOOL_SIZE
    /\ \E k \in 1..Len(task) : task[k] = "queued"

\* ------------------------------------------------ properties of the fan-out
AppIndexes == 1..Len(apps)

\* The handler of application k raised, so run_task fell back.
Failed(k) == HandlerRaises(apps[k], fetched[k])

\* The record the returned map holds for application k.
Listed(k) == DictValue(listing, apps[k]["id"])

\* C7: the keys of the map _generate_listing returns are exactly the ids of
\* the applications the resource manager listed, each once, whichever
\* handlers failed.
C7_KeysAreInputIds ==
    fan_pc = "returned" =>
        /\ DictKeys(listing) = {apps[k]["id"] : k \in AppIndexes}
        /\ Len(listing) = Cardinality(DictKeys(listing))

\* C7 witness: a map returned for two applications, one whose handler failed
\* and one whose handler did not.
C7_Witness ==
    /\ fan_pc = "returned"
    /\ Len(apps) >= 2
    /\ \E j, k \in AppIndexes : Failed(j) /\ ~Failed(k)

\* What run_task returns for application k given the answers it received,
\* and what the map holds for it once every result is in.
OutcomeOf(k) == RunTask(apps[k], fetched[k])
EveryOutcomeFailed == \A k \in AppIndexes : OutcomeOf(k)["state"] = NON_RESPONSIVE_STATE
ExpectedRecord(k) ==
    IF EveryOutcomeFailed
    THEN [OutcomeOf(k) EXCEPT !["state"] = "UNKNOWN"]
    ELSE OutcomeOf(k)

\* C25: the map _generate_listing returns is a function of the application
\* list and of what each application's fetches answered, whatever the order
\* in which the worker threads start and finish: each run_task's result
\* depends on its own application and answers only, and the returned map
\* holds per id that result, downgraded to UNKNOWN exactly when every
\* application failed.
C25_InterleavingIndependence ==
    /\ \A k \in AppIndexes :
          (k \in DOMAIN results /\ fan_pc = "map") => results[k] = OutcomeOf(k)
    /\ (fan_pc = "returned" /\ apps # <<>>) =>
          /\ Len(listing) = Len(apps)
          /\ \A k \in AppIndexes :
                /\ apps[k]["id"] \in DictKeys(listing)
                /\ Listed(k) = ExpectedRecord(k)

\* C25 witness: the run_task submitted second has returned, with a failure,
\* while the one submitted first still runs.
C25_Witness ==
    /\ fan_pc = "map"
    /\ Len(task) = 2
    /\ task[1] = "running"
    /\ task[2] = "done"
    /\ Failed(2)
    /\ results[2]["state"] = NON_RESPONSIVE_STATE

\* C8: with at least one application, if the detail fetch of every
\* application failed, every record of the map has the state UNKNOWN (and so
\* none has NON_RESPONSIVE).
C8_AllFailedIsUnknown ==
    ( /\ fan_pc = "returned"
      /\ Len(apps) >= 1
      /\ \A k \in AppIndexes : Failed(k) )
    => \A k \in AppIndexes :
         /\ Listed(k)["state"] = "UNKNOWN"
         /\ Listed(k)["state"] # NON_RESPONSIVE_STATE

\* C8 witness: a map returned for two applications of different types whose
\* handlers both failed.
C8_Witness ==
    /\ fan_pc = "returned"
    /\ Len(apps) >= 2
    /\ \A k \in AppIndexes : Failed(k)
    /\ \E j, k \in AppIndexes : HandlerClass(apps[j]) # HandlerClass(apps[k])

\* C9: if the detail fetch failed for some but not all applications, each
\* failing application's record has the state NON_RESPONSIVE and every other
\* record is exactly what the application's handler returned.
C9_PartialFailure ==
    ( /\ fan_pc = "returned"
      /\ \E k \in AppIndexes : Failed(k)
      /\ \E k \in AppIndexes : ~Failed(k) )
    => \A k \in AppIndexes :
         IF Failed(k)
         THEN Listed(k)["state"] = NON_RESPONSIVE_STATE
         ELSE Listed(k) = HandlerInfo(apps[k], fetched[k])

\* C9 witness: a failed application next to a Spark application whose
\* handler returned the state IDLE and two progress records.
C9_Witness ==
    /\ fan_pc = "returned"
    /\ \E j, k \in AppIndexes :
         /\ Failed(j)
         /\ ~Failed(k)
         /\ HandlerClass(apps[k]) = "SparkHandler"
         /\ Listed(k)["state"] = "IDLE"
         /\ Len(Listed(k)["progress"]) = 2

\* A job object of the decoded answer lacks one of the counters.
LacksCounter(v, fields) ==
    \E k \in 1..Len(v.items) : ~(Range(fields) \subseteq DOMAIN v.items[k])

\* The answer is one of the tracking-endpoint failures: a timeout, an HTTP
\* error response, text that is no JSON, a job without an expected counter.
EndpointFailure(app, resp) ==
    \/ ~resp.arrived
    \/ resp.status >= 400
    \/ ~resp.body.wellformed
    \/ /\ HandlerClass(app) = "SparkHandler"
       /\ LacksCounter(TrackingGet(resp), SparkFields)
    \/ /\ HandlerClass(app) = "MapredHandler"
       /\ ~MapredJobsRaises(resp)
       /\ LacksCounter(MapredJobs(resp), ReduceFields)

\* The fallback record: the verbatim fields, an empty progress list and the
\* state NON_RESPONSIVE, or UNKNOWN after the downgrade.
IsFallback(info, app) ==
    /\ info["state"] \in {NON_RESPONSIVE_STATE, "UNKNOWN"}
    /\ info = [BaseInfo(app) EXCEPT !["state"] = info["state"]]

\* C10 (as claimed): every application one of whose tracking GETs ended in a
\* timeout, an HTTP error response, malformed JSON or a missing field is in
\* the returned map with the fallback record, not with a handler's result.
C10_EndpointFailuresFallBack ==
    fan_pc = "returned" =>
        \A k \in AppIndexes :
            (\E n \in 1..Len(fetched[k]) : EndpointFailure(apps[k], fetched[k][n]))
                => IsFallback(Listed(k), apps[k])

\* The Spark handler of application k got its running jobs and then failed
\* on the fetch or the aggregation of all its jobs.
FailedOnAllJobs(k) ==
    /\ HandlerClass(apps[k]) = "SparkHandler"
    /\ Len(fetched[k]) = 2
    /\ ~EndpointFailure(apps[k], fetched[k][1])
    /\ EndpointFailure(apps[k], fetched[k][2])

\* C28: a Spark application whose running-jobs fetch succeeded and whose
\* all-jobs fetch or aggregation then failed is in the map with the pure
\* fallback record: the verbatim fields, an empty progress list (so no
\* 'Running Tasks' record) and the state NON_RESPONSIVE or UNKNOWN, never
\* the RUNNING or IDLE the handler would have forced.
C28_NoPartialResultLeaks ==
    fan_pc = "returned" =>
        \A k \in AppIndexes :
            FailedOnAllJobs(k) =>
                /\ DOMAIN Listed(k) = VerbatimFields \cup {"progress"}
                /\ \A f \in VerbatimFields \ {"state"} : Listed(k)[f] = apps[k][f]
                /\ Listed(k)["progress"] = <<>>
                /\ Listed(k)["state"] \in {NON_RESPONSIVE_STATE, "UNKNOWN"}
                /\ Listed(k)["state"] = "UNKNOWN" <=> (\A j \in AppIndexes : Failed(j))

\* C28 witness: the running-jobs fetch of a Spark application returned one
\* running job, its all-jobs fetch timed out, and the application is listed
\* as NON_RESPONSIVE next to one whose handler succeeded.
C28_Witness ==
    /\ fan_pc = "returned"
    /\ \E k, j \in AppIndexes :
          /\ FailedOnAllJobs(k)
          /\ JsonDecode(fetched[k][1].body) = JList(<<SparkJob>>)
          /\ ~fetched[k][2].arrived
          /\ Listed(k)["state"] = NON_RESPONSIVE_STATE
          /\ ~Failed(j)

\* ====================================================== one handler call
\* A second Spark job and a second MapReduce job, both finished.
SparkJobDone ==
    [numCompletedTasks |-> 2, numFailedTasks |-> 1, numActiveTasks |-> 0, numTasks |-> 3]
MapredJobDone ==
    [mapsCompleted |-> 4, failedMapAttempts |-> 1, mapsRunning |-> 0, mapsTotal |-> 5,
     reducesCompleted |-> 2, failedReduceAttempts |-> 0, reducesRunning |-> 0,
     reducesTotal |-> 2]

\* The job lists of up to MaxJobs jobs drawn from kinds.
JobLists(kinds) == UNION {[1..n -> kinds] : n \in 0..MaxJobs}

SparkJobAnswers ==
    TroubleAnswers
    \cup {Answer(200, JsonText(JList(js))) :
            js \in JobLists({SparkJob, SparkJobDone, SparkJobShort})}

MapredJobAnswers ==
    TroubleAnswers
    \cup {Answer(200, JsonText(JDict([jobs |-> JNull])))}
    \cup {Answer(200, JsonText(JDict([jobs |-> JDict([job |-> JList(js)])]))) :
            js \in JobLists({MapredJob, MapredJobDone, MapredJobShort})}

\* The answers one generate_standardized_info call can receive, in the order
\* of its GETs.
HandlerAnswerSequences(app) ==
    CASE HandlerClass(app) = "SparkHandler" ->
            {<<r1>> : r1 \in {r \in SparkJobAnswers : SparkRunningRaises(r)}}
            \cup {<<r1, r2>> : r1 \in {r \in SparkJobAnswers : ~SparkRunningRaises(r)},
                               r2 \in SparkJobAnswers}
      [] HandlerClass(app) = "MapredHandler" -> {<<r1>> : r1 \in MapredJobAnswers}
      [] OTHER -> {<<>>}

\* The types and states of the application handed to the handler: the three
\* registered types, two that are not registered (one differs from a
\* registered type by case only), and a state other than RUNNING.
HandlerAppTypes == AppTypes \cup {"MAPRED", "spark"}
HandlerAppStates == AppStates \cup {"ACCEPTED"}

\* _make_application_handler(app) has made the handler of one application of
\* any type, registered or not.
InitHandler ==
    /\ fan_pc = "handler"
    /\ cluster_apps = JNull
    /\ apps \in {<<RMApp(1, t, st)>> : t \in HandlerAppTypes, st \in HandlerAppStates}
    /\ task = <<>>
    /\ fetched = <<>>
    /\ results = <<>>
    /\ listing = <<>>
    /\ fan_error = NoValue

InitSpecHandler == InitHandler /\ InitPollerRM /\ PollerAtRest /\ ReaderAtRest /\ PoolIdle

\* ah.generate_standardized_info(app): it returns its record or raises.
GenerateStandardizedInfo ==
    /\ fan_pc = "handler"
    /\ \E answers \in HandlerAnswerSequences(apps[1]) :
        /\ fetched' = <<answers>>
        /\ IF HandlerRaises(apps[1], answers)
           THEN /\ fan_pc' = "handler_raised"
                /\ fan_error' = "Exception"
                /\ UNCHANGED results
           ELSE /\ fan_pc' = "handler_returned"
                /\ results' = <<HandlerInfo(apps[1], answers)>>
                /\ UNCHANGED fan_error
    /\ UNCHANGED <<cluster_apps, apps, task, listing, rm_vars, poller_vars, reader_vars, pool_vars>>

NextHandler == GenerateStandardizedInfo

SpecHandler == InitSpecHandler /\ [][NextHandler]_vars

\* ------------------------------------------- properties of the handlers
\* The handler of the one application returned a record.
Returned(class) ==
    fan_pc = "handler_returned" /\ HandlerClass(apps[1]) = class

\* The sum of a counter over the first n jobs of a list.
RECURSIVE CounterTotal(_, _, _)
CounterTotal(jobs, counter, n) ==
    IF n = 0 THEN 0 ELSE CounterTotal(jobs, counter, n - 1) + jobs[n][counter]

\* C11 (as claimed): the generic handler copies the twelve verbatim fields
\* and emits exactly one Progress record whose completed is the resource
\* manager's progress percentage and whose total is 100.
C11_GenericEmitsOneProgress ==
    Returned("BaseHandler") =>
        /\ \A f \in VerbatimFields : results[1][f] = apps[1][f]
        /\ Len(results[1]["progress"]) = 1
        /\ results[1]["progress"][1]["completed"] = apps[1]["progress"]
        /\ results[1]["progress"][1]["total"] = 100

\* C11 (amended): the generic handler's record has the twelve verbatim
\* fields, each with the value the resource manager reported, and a progress
\* list that is empty; it has no other field.
C11_GenericEmitsNoProgress ==
    Returned("BaseHandler") =>
        /\ DOMAIN results[1] =
              {"id", "name", "user", "applicationType", "queue", "startedTime",
               "allocatedMB", "allocatedVCores", "trackingUrl", "state",
               "memorySeconds", "vcoreSeconds", "progress"}
        /\ \A f \in DOMAIN results[1] \ {"progress"} : results[1][f] = apps[1][f]
        /\ results[1]["progress"] = <<>>

\* C11 witness: the generic handler returned the record of an application of
\* a type no handler is registered for, whose resource-manager progress is 50.
C11_Witness ==
    /\ Returned("BaseHandler")
    /\ apps[1]["applicationType"] = "TEZ"
    /\ apps[1]["progress"] = 50
    /\ results[1]["id"] = apps[1]["id"]

\* C12: for every list R of running jobs and list J of all jobs the tracking
\* endpoint returned, the Spark handler's progress list is exactly 'Running
\* Tasks' with the sums of numCompletedTasks / numFailedTasks /
\* numActiveTasks / numTasks over R (all zero when R is empty) followed by
\* 'Total' with the same sums over J.
C12_SparkAggregation ==
    LET R == JsonDecode(fetched[1][1].body)
        J == JsonDecode(fetched[1][2].body)
        T(js, counter) == CounterTotal(js, counter, Len(js))
    IN  ( /\ Returned("SparkHandler")
          /\ R.kind = "list"
          /\ J.kind = "list" )
        => /\ results[1]["progress"] =
                << [name |-> "Running Tasks",
                    completed |-> T(R.items, "numCompletedTasks"),
                    failed |-> T(R.items, "numFailedTasks"),
                    running |-> T(R.items, "numActiveTasks"),
                    total |-> T(R.items, "numTasks")],
                   [name |-> "Total",
                    completed |-> T(J.items, "numCompletedTasks"),
                    failed |-> T(J.items, "numFailedTasks"),
                    running |-> T(J.items, "numActiveTasks"),
                    total |-> T(J.items, "numTasks")] >>
           /\ R.items = <<>> =>
                results[1]["progress"][1] =
                    [name |-> "Running Tasks", completed |-> 0, failed |-> 0,
                     running |-> 0, total |-> 0]

\* C12 witness: one running job (3, 0, 1, 4) among the two jobs (3, 0, 1, 4)
\* and (2, 1, 0, 3): 'Running Tasks' 3/0/1/4, 'Total' 5/1/1/7, state RUNNING.
C12_Witness ==
    /\ Returned("SparkHandler")
    /\ JsonDecode(fetched[1][1].body) = JList(<<SparkJob>>)
    /\ JsonDecode(fetched[1][2].body) = JList(<<SparkJob, SparkJobDone>>)
    /\ results[1]["progress"] =
          << [name |-> "Running Tasks", completed |-> 3, failed |-> 0,
              running |-> 1, total |-> 4],
             [name |-> "Total", completed |-> 5, failed |-> 1,
              running |-> 1, total |-> 7] >>
    /\ results[1]["state"] = "RUNNING"

\* Both get_jobs of the Spark handler were answered, neither with one of the
\* tracking-endpoint failures.
BothFetchesSucceeded ==
    /\ fan_pc \in {"handler_returned", "handler_raised"}
    /\ HandlerClass(apps[1]) = "SparkHandler"
    /\ Len(fetched[1]) = 2
    /\ \A n \in 1..2 : ~EndpointFailure(apps[1], fetched[1][n])

\* C26: for every Spark application whose two job fetches succeed the record
\* has the state RUNNING if the running-jobs answer is non-empty and IDLE
\* if it is empty, whatever state the resource manager reported, and in the
\* IDLE case its 'Running Tasks' record has all four counters zero.
C26_SparkStateForcing ==
    BothFetchesSucceeded =>
        LET R == JsonDecode(fetched[1][1].body).items IN
        /\ fan_pc = "handler_returned"
        /\ R # <<>> => results[1]["state"] = "RUNNING"
        /\ R = <<>> =>
              /\ results[1]["state"] = "IDLE"
              /\ results[1]["progress"][1] =
                    [name |-> "Running Tasks", completed |-> 0, failed |-> 0,
                     running |-> 0, total |-> 0]

\* C26 witness: an application the resource manager reports as RUNNING has
\* no running job among its two jobs and is recorded as IDLE.
C26_Witness ==
    /\ BothFetchesSucceeded
    /\ apps[1]["state"] = "RUNNING"
    /\ JsonDecode(fetched[1][1].body) = JList(<<>>)
    /\ Len(JsonDecode(fetched[1][2].body).items) = 2
    /\ results[1]["state"] = "IDLE"

\* The names of the records of a progress list, in order.
ProgressNames(info) == [k \in 1..Len(info["progress"]) |-> info["progress"][k]["name"]]

\* C27: the handler is chosen by the application's applicationType. Only
\* SPARK, MAPREDUCE and MAPRED have a handler of their own (the Spark handler
\* asks its tracking URL once or twice, the MapReduce handler once); every
\* other type gets the generic handler, which asks nothing, raises nothing
\* and returns the resource manager's fields with its state, never
\* NON_RESPONSIVE.
C27_DispatchByType ==
    fan_pc \in {"handler_returned", "handler_raised"} =>
        LET type == apps[1]["applicationType"] IN
        /\ type \notin {"SPARK", "MAPREDUCE", "MAPRED"} =>
              /\ fan_pc = "handler_returned"
              /\ fetched[1] = <<>>
              /\ \A f \in DOMAIN results[1] \ {"progress"} : results[1][f] = apps[1][f]
              /\ results[1]["progress"] = <<>>
              /\ results[1]["state"] = apps[1]["state"]
              /\ results[1]["state"] # NON_RESPONSIVE_STATE
        /\ type = "SPARK" =>
              /\ Len(fetched[1]) \in {1, 2}
              /\ fan_pc = "handler_returned" =>
                    ProgressNames(results[1]) = <<"Running Tasks", "Total">>
        /\ type \in {"MAPREDUCE", "MAPRED"} =>
              /\ Len(fetched[1]) = 1
              /\ fan_pc = "handler_returned" =>
                    ProgressNames(results[1]) \in {<<>>, <<"Maps", "Reduces">>}

\* C27 witness: an application whose type differs from a registered one by
\* case only was handled by the generic handler, without a request.
C27_Witness ==
    /\ Returned("BaseHandler")
    /\ apps[1]["applicationType"] = "spark"
    /\ fetched[1] = <<>>
    /\ results[1]["state"] = apps[1]["state"]

\* The job list a MapReduce answer carries under jobs.job, empty if it has none.
JobListOf(body) ==
    IF /\ body.kind = "dict"
       /\ "jobs" \in DOMAIN body.map
       /\ body.map["jobs"].kind = "dict"
       /\ "job" \in DOMAIN body.map["jobs"].map
    THEN body.map["jobs"].map["job"].items
    ELSE <<>>

\* C13: for every non-empty job list the MapReduce handler's progress list is
\* exactly 'Maps' (sums of mapsCompleted / failedMapAttempts / mapsRunning /
\* mapsTotal) followed by 'Reduces' (sums of reducesCompleted /
\* failedReduceAttempts / reducesRunning / reducesTotal) over all jobs; for
\* an empty job list the progress list is the base handler's, unchanged, and
\* the state is the resource manager's.
C13_MapredAggregation ==
    LET jobs == JobListOf(JsonDecode(fetched[1][1].body))
        T(counter) == CounterTotal(jobs, counter, Len(jobs))
    IN  Returned("MapredHandler") =>
            IF jobs # <<>>
            THEN results[1]["progress"] =
                    << [name |-> "Maps",
                        completed |-> T("mapsCompleted"),
                        failed |-> T("failedMapAttempts"),
                        running |-> T("mapsRunning"),
                        total |-> T("mapsTotal")],
                       [name |-> "Reduces",
                        completed |-> T("reducesCompleted"),
                        failed |-> T("failedReduceAttempts"),
                        running |-> T("reducesRunning"),
                        total |-> T("reducesTotal")] >>
            ELSE /\ results[1]["progress"] = BaseInfo(apps[1])["progress"]
                 /\ results[1]["state"] = apps[1]["state"]

\* C13 witness: the jobs (5, 0, 2, 7 | 1, 0, 1, 2) and (4, 1, 0, 5 | 2, 0, 0, 2):
\* 'Maps' 9/1/2/12 and 'Reduces' 3/0/1/4.
C13_Witness ==
    /\ Returned("MapredHandler")
    /\ JobListOf(JsonDecode(fetched[1][1].body)) = <<MapredJob, MapredJobDone>>
    /\ results[1]["progress"] =
          << [name |-> "Maps", completed |-> 9, failed |-> 1,
              running |-> 2, total |-> 12],
             [name |-> "Reduces", completed |-> 3, failed |-> 0,
              running |-> 1, total |-> 4] >>

\* ===================================================== the web application
\* YARNModel.exists: redis_store.get(self.key) is not None
Exists == store.present

\* The body of YARNModel.state: json.loads of the value, {} if there is none.
ReadState == IF store.present THEN JsonLoads(store.text) ELSE <<>>

\* YARNModel.state behind @cache.cached(timeout=5): the cached value if there
\* is one, else what the body returns.
ModelState == IF cache.present THEN cache.value ELSE ReadState

\* self.state.get(key, '')
StateGet(key) ==
    IF key \in DictKeys(ModelState) THEN DictValue(ModelState, key).val ELSE ""

\* An empty dict where a record is expected.
EmptyRecord == [f \in {} |-> f]

\* YARNModel.applications: self.state.get("application-metrics", {})
Applications ==
    IF "application-metrics" \in DictKeys(ModelState)
    THEN DictValue(ModelState, "application-metrics").val
    ELSE <<>>

\* YARNModel.application_info:
\* self.state.get("application-metrics", {}).get(application_id, {})
ApplicationInfo(application_id) ==
    IF application_id \in DictKeys(Applications)
    THEN DictValue(Applications, application_id)
    ELSE EmptyRecord

\* metrics.get('clusterMetrics', {}) of a cluster/metrics body.
MetricsGet(metrics) ==
    IF metrics = "{clusterMetrics: ...}" THEN "..." ELSE "{}"

\* YARNModel.cluster_metrics
ClusterMetrics ==
    MetricsGet(IF "cluster-metrics" \in DictKeys(ModelState)
               THEN DictValue(ModelState, "cluster-metrics").val
               ELSE "{}")

\* The JSON the status endpoint answers with.
StatusResponse ==
    [status |-> IF Exists THEN "ok" ELSE "unknown",
     refresh_datetime |-> StateGet("refresh-datetime"),
     current_rm |-> StateGet("current-rm")]

\* A request to the status endpoint whose read of YARNModel.state misses the
\* cache: the body runs and its value is cached.
StatusRequest ==
    /\ ~cache.present
    /\ cache' = [present |-> TRUE, value |-> ReadState]
    /\ UNCHANGED <<rm_vars, poller_vars, fan_vars, pool_vars>>

\* The cache entry is 5 seconds old and is dropped.
CacheExpire ==
    /\ cache.present
    /\ cache' = NoCache
    /\ UNCHANGED <<rm_vars, poller_vars, fan_vars, pool_vars>>

NextWeb ==
    \/ Next
    \/ StatusRequest
    \/ CacheExpire

SpecWeb == Init /\ [][NextWeb]_vars

\* ------------------------------------- properties of the web application
\* Some cycle has published a snapshot.
EverPublished == \E k \in 1..Len(outcomes) : outcomes[k] = Published

\* C16: while no snapshot has ever been written the model reports exists()
\* false and an empty state and the status endpoint 'unknown'; from the first
\* publish on exists() is true and the status endpoint reports 'ok', and no
\* later step, a failed cycle included, makes exists() false again.
C16_ReaderView ==
    /\ [](~EverPublished =>
            /\ ~Exists
            /\ ModelState = <<>>
            /\ StatusResponse = [status |-> "unknown", refresh_datetime |-> "",
                                 current_rm |-> ""])
    /\ [](EverPublished => (Exists /\ StatusResponse.status = "ok"))
    /\ [][Exists => Exists']_vars

\* C16 witness: a snapshot was published, the web application has read and
\* cached it, and the cycle after it has failed.
C16_Witness ==
    /\ EverPublished
    /\ poller_pc = "sleep"
    /\ outcomes[Len(outcomes)] # Published
    /\ cache.present
    /\ cache.value # <<>>
    /\ StatusResponse.status = "ok"

\* ================================================= one cycle in full
\* run_update calls self._generate_listing().
RunUpdateCallListing ==
    /\ poller_pc = "run_update"
    /\ fan_pc = "off"
    /\ poller_pc' = "_generate_listing"
    /\ store_at_start' = store
    /\ fan_pc' = "cluster_applications"
    /\ UNCHANGED <<cluster_apps, apps, task, fetched, results, listing, fan_error,
                   rm_vars, state, store, cycle, clock, poller_error, outcomes,
                   reader_vars, pool_vars>>

\* self.state["current"] = <what _generate_listing returned>, or its
\* exception leaves run_update. The run_tasks the call left running after a
\* timeout go on in the pool; what the resource manager answered and what the
\* call returned stay on record.
RunUpdateTakeListing ==
    /\ poller_pc = "_generate_listing"
    /\ fan_pc \in {"returned", "raised"}
    /\ IF fan_pc = "returned"
       THEN /\ state' = DictSet(state, "current", Produced(cycle, listing))
            /\ poller_pc' = "cluster_metrics"
            /\ UNCHANGED poller_error
       ELSE /\ RunUpdateRaise("_generate_listing", fan_error)
            /\ UNCHANGED state
    /\ fan_pc' = "off"
    /\ UNCHANGED <<cluster_apps, apps, task, fetched, results, listing, fan_error,
                   rm_vars, store, cycle, clock, store_at_start, outcomes,
                   reader_vars, pool_vars>>

NextCycle ==
    \/ RunUpdateCallListing
    \/ GenerateListingSubmit
    \/ \E i \in 1..Len(task) : TaskStart(i)
    \/ \E i \in 1..Len(task) : TaskFinish(i)
    \/ GenerateListingCollect
    \/ GenerateListingTimeout
    \/ RunUpdateTakeListing
    \/ RunUpdateMetrics
    \/ RunUpdateStamp
    \/ RunUpdatePublish
    \/ LoopExcept

SpecCycle == Init /\ [][NextCycle]_vars

\* ---------------------------------------------- properties of one cycle
\* The resource manager's listing has no 'apps' entry, a null 'apps' entry
\* or an empty application list.
ReportsNoApplications ==
    /\ cluster_apps.kind = "dict"
    /\ \/ "apps" \notin DOMAIN cluster_apps.map
       \/ cluster_apps.map["apps"].kind = "null"
       \/ cluster_apps.map["apps"].map["app"].items = <<>>

\* C15: when the resource manager's listing has no 'apps' entry, a null
\* 'apps' entry or an empty application list, the fan-out returns an empty
\* map and raises nothing, run_update goes on to cluster_metrics with an
\* empty 'current' map, and the snapshot it publishes has an empty 'current'.
C15_NoApplicationsIsEmptyMap ==
    ReportsNoApplications =>
        /\ fan_pc # "raised"
        /\ fan_error = NoValue
        /\ fan_pc = "returned" => listing = <<>>
        /\ poller_error.at # "_generate_listing"
        /\ fan_pc = "off" =>
              /\ poller_pc \in {"cluster_metrics", "utcnow", "redis_set", "except",
                                "sleep", "terminated"}
              /\ DictValue(state, "current").by = cycle
              /\ DictValue(state, "current").val = <<>>
        /\ (poller_pc = "sleep" /\ poller_error = NoError) =>
              /\ store.present
              /\ DictValue(JsonLoads(store.text), "current").by = cycle
              /\ DictValue(JsonLoads(store.text), "current").val = <<>>

\* C15 witness: a cycle has published its snapshot after the resource
\* manager answered with an application list that is empty.
C15_Witness ==
    /\ cluster_apps = JDict([apps |-> JDict([app |-> JList(<<>>)])])
    /\ poller_pc = "sleep"
    /\ poller_error = NoError
    /\ store.present
    /\ DictValue(JsonLoads(store.text), "current").val = <<>>
    /\ DictKeys(JsonLoads(store.text)) = {"current", "cluster-metrics", "refresh-datetime"}

SnapshotKeys == {"current", "cluster-metrics", "refresh-datetime"}

\* The fan-out of the cycle in progress did not complete within
\* THREADPOOL_TIMEOUT.
FanoutTimedOut == fan_error = "TimeoutError"

\* A key of the dict d holds a value the given cycle produced.
ProducedBy(d, key, c) == key \in DictKeys(d) /\ DictValue(d, key).by = c

\* C22: when the fan-out does not complete within the timeout, the cycle is
\* abandoned as a failure: cluster_metrics is not fetched, nothing is written
\* to the store, nothing the cycle's run_tasks produced (those that finish
\* after the timeout included) reaches the in-memory state from which this
\* and later cycles publish, and the loop goes on to its sleep.
C22_TimeoutAbandonsCycle ==
    FanoutTimedOut =>
        /\ poller_pc \in {"_generate_listing", "except", "sleep"}
        /\ fan_pc \in {"raised", "off"}
        /\ store = store_at_start
        /\ \A key \in SnapshotKeys : ~ProducedBy(state, key, cycle)
        /\ store.present =>
              \A key \in SnapshotKeys : ~ProducedBy(JsonLoads(store.text), key, cycle)
        /\ poller_pc \in {"except", "sleep"} =>
              poller_error = [at |-> "_generate_listing", type |-> "TimeoutError"]
        /\ poller_pc = "sleep" => outcomes[Len(outcomes)] = poller_error

\* C22 witness: the only run_task of a fan-out was not done when the timeout
\* passed, has since returned a good record, and the loop is at its sleep.
C22_Witness ==
    /\ FanoutTimedOut
    /\ poller_pc = "sleep"
    /\ Len(task) = 1
    /\ task[1] = "done"
    /\ results[1].state = "RUNNING"
    /\ results[1].progress # <<>>

\* The snapshot in the store, its application map and its cluster metrics.
StoredSnapshot == JsonLoads(store.text)
StoredApplications == DictValue(StoredSnapshot, "current").val
StoredMetrics == DictValue(StoredSnapshot, "cluster-metrics").val

\* C29 (as claimed): once a cycle has written a snapshot, the web
\* application's model, reading that stored value, returns for every
\* application X of the snapshot's map X's record from applications() and
\* from application_info(X), and the snapshot's cluster metrics from
\* cluster_metrics().
C29_ReaderAgreesWithPublisher ==
    (store.present /\ ~cache.present) =>
        /\ \A X \in DictKeys(StoredApplications) :
              /\ X \in DictKeys(Applications)
              /\ DictValue(Applications, X) = DictValue(StoredApplications, X)
              /\ ApplicationInfo(X) = DictValue(StoredApplications, X)
        /\ ClusterMetrics = MetricsGet(StoredMetrics)

\* --------------------------------------------- properties of the poll loop
LastOutcome == outcomes[Len(outcomes)]

\* The cycle in progress has raised, or the last finished cycle did.
CycleFailed ==
    \/ poller_pc = "except"
    \/ /\ poller_pc \in {"sleep", "terminated"}
       /\ outcomes # <<>>
       /\ LastOutcome # Published

\* C4: a cycle that raises at any stage writes nothing to the store: the
\* value under the snapshot key is the one the cycle found when it began.
C4_FailedCycleKeepsStore == CycleFailed => store = store_at_start

\* C4 witness: a cycle that failed at the very last statement, with every
\* key of the in-memory state already updated, after an earlier publish.
C4_Witness ==
    /\ poller_pc = "sleep"
    /\ CycleFailed
    /\ LastOutcome.at = "redis_set"
    /\ store.present
    /\ DictValue(state, "refresh-datetime").by = cycle
    /\ DictValue(JsonLoads(store.text), "refresh-datetime").by < cycle


\* C5: every snapshot in the store holds an application map, cluster metrics
\* and a timestamp that one and the same poll cycle produced.
C5_SnapshotOfOneCycle ==
    store.present =>
        LET snapshot == JsonLoads(store.text) IN
        /\ DictKeys(snapshot) = SnapshotKeys
        /\ \E c \in 1..cycle :
             \A key \in SnapshotKeys : DictValue(snapshot, key).by = c

\* C5 witness: a snapshot published by a cycle that follows one which failed
\* after it had replaced the application map in memory.
C5_Witness ==
    /\ poller_pc = "sleep"
    /\ Len(outcomes) >= 2
    /\ LastOutcome = Published
    /\ outcomes[Len(outcomes) - 1].at = "cluster_metrics"
    /\ store.present
    /\ DictValue(JsonLoads(store.text), "current").by = cycle

\* The timestamp of the snapshot in the store, as a reader decodes it.
RefreshDatetime(value) == DictValue(JsonLoads(value.text), "refresh-datetime").val

\* The text is an ISO-8601 date and time with the UTC designator 'Z':
\* date 'T' time, an optional fraction of six digits, 'Z'.
IsIsoUtc(text) ==
    /\ Len(text) \in {3, 5}
    /\ text[1] = "1970-01-01T00:00:"
    /\ text[2] \in 0..59
    /\ Len(text) = 5 => (text[3] = "." /\ text[4] \in 1..999999)
    /\ text[Len(text)] = "Z"

\* The instant such a text names, in microseconds.
ParseIsoUtc(text) ==
    text[2] * 1000000 + (IF Len(text) = 5 THEN text[4] ELSE 0)

C23_CyclesAreSequential ==
    [][ /\ (cycle' # cycle) =>
              /\ poller_pc = "sleep" /\ poller_pc' = "run_update"
              /\ cycle' = cycle + 1
              /\ Len(outcomes) = cycle
              /\ outcomes' = outcomes
        /\ (poller_pc = "sleep" /\ poller_pc' # "sleep") => cycle' = cycle + 1
        /\ (outcomes' # outcomes) =>
              /\ Len(outcomes) = cycle - 1
              /\ poller_pc \in {"redis_set", "except"}
              /\ poller_pc' = "sleep"
              /\ \E o \in {Published, poller_error} : outcomes' = Append(outcomes, o)
        /\ (poller_pc' = "sleep" /\ poller_pc # "sleep") => outcomes' # outcomes
        /\ (poller_pc' = "cluster_metrics" /\ poller_pc # "cluster_metrics") =>
              /\ poller_pc = "run_update"
              /\ ProducedBy(state', "current", cycle)
              /\ ~ProducedBy(state', "cluster-metrics", cycle)
        /\ (poller_pc' = "utcnow" /\ poller_pc # "utcnow") =>
              /\ poller_pc = "cluster_metrics"
              /\ ProducedBy(state', "cluster-metrics", cycle)
              /\ ~ProducedBy(state', "refresh-datetime", cycle)
        /\ (poller_pc' = "redis_set" /\ poller_pc # "redis_set") =>
              /\ poller_pc = "utcnow"
              /\ ProducedBy(state', "refresh-datetime", cycle)
              /\ store = store_at_start
        /\ (store' # store) =>
              /\ poller_pc = "redis_set" /\ poller_pc' = "sleep"
              /\ store = store_at_start
              /\ outcomes' = Append(outcomes, Published)
      ]_vars

\* C23 witness: the third cycle begins after a cycle that failed and a cycle
\* that published.
C23_Witness ==
    /\ poller_pc = "run_update"
    /\ cycle = 3
    /\ Len(outcomes) = 2
    /\ outcomes[1] # Published
    /\ outcomes[2] = Published
    /\ store.present

\* C6: no exception of a cycle ends the loop: it is caught, and after the
\* sleep the next cycle starts (as long as the model lets cycles start).
C6_LoopSurvivesFailure ==
    /\ [](poller_pc # "terminated")
    /\ \A c \in 1..(MaxCycles - 1) :
         (poller_pc = "except" /\ cycle = c)
            ~> (poller_pc = "run_update" /\ cycle = c + 1)

\* C6 witness: a cycle starts after two failed cycles in a row, one of them
\* stopped by the global fetch timeout.
C6_Witness ==
    /\ poller_pc = "run_update"
    /\ Len(outcomes) >= 2
    /\ \A k \in 1..Len(outcomes) : outcomes[k] # Published
    /\ \E k \in 1..Len(outcomes) : outcomes[k].type = "TimeoutError"

====
